---- MODULE Spec2Model ----
(***************************************************************************)
(* Model of the Outlook MCP server: the token service                      *)
(* (src/src/auth/token_service.py) and the mail tools with their Graph     *)
(* client (src/src/server.py).                                             *)
(*                                                                         *)
(* The server runs on one asyncio event loop: the code between two awaits  *)
(* that really suspend is atomic, so every action below is one such        *)
(* segment.  The relational store, the identity provider, the mailbox API  *)
(* and the clock are the environment.                                      *)
(*                                                                         *)
(* Spec and SpecStored are runs of get_token calls; Tools is the run of    *)
(* one tool call (list_emails or search_emails) with a token that the      *)
(* middleware has, or has not, bound to its context.                       *)
(***************************************************************************)
EXTENDS Integers, Sequences, FiniteSets, TLC

\* ------------------------------------------------------------------ bounds
MaxCalls == 2          \* get_token invocations in one run
MaxTicks == 1          \* seconds the clock may advance in one run
Epoch    == 1000       \* clock value at process start
MaxRequests == 3       \* requests the mailbox API lets one fetch chain up

\* --------------------------------------------------------- program constants
PROVIDER         == "microsoft"
RefreshWindow    == 300
DefaultExpiresIn == 3600

Calls  == 1..MaxCalls
Users  == {"u1", "u2", "u3", "u4", "u5"}

\* The users whose calls a run draws from: u1 holds a token at the edge of
\* the refresh window, u2 an expired one, u3 no row of the provider, and
\* the token of u4 does not decrypt.  CallersOne leaves out the second
\* user whose token can be refreshed.
Callers       == {"u1", "u2", "u3", "u4"}
CallersOne    == {"u1", "u3", "u4"}
CallersStored == {"u1", "u3", "u4", "u5"}

\* expires_in values the provider may send (the field may also be absent)
ExpiresInValues == {RefreshWindow - 1}

VARIABLES
    now,          \* the latest clock value read (datetime.now / SQL NOW())
    rows,         \* oauth_connections: row id -> row
    locks,        \* self._locks: user id -> asyncio.Lock
    pool,         \* self._pool: 0 is None, otherwise the pool's identity
    poolsCreated, \* asyncpg.create_pool calls completed so far
    issued,       \* per account, answers the identity provider has issued
    encs,         \* per call, Fernet encryptions done (each takes a fresh IV)
    pc,           \* position of every get_token call
    frame,        \* local variables of every get_token call
    outcome,      \* what every get_token call returned or raised
    log,          \* the lines every get_token call has logged, in order
    trace,        \* history: the I/O a call has performed, in order
    before,       \* history: the whole canonical row as a call fetched it
    lifetime,     \* history: the remaining lifetime a call computed
    order,        \* history: per user, calls in lock acquisition order
    shutdown      \* the close() call: its position, the pool it closes

\* A tool call and its Graph requests
VARIABLES
    toolPc,       \* position of the tool call
    tool,         \* local variables of the tool call and of its callees
    toolResult,   \* what the tool call returned or raised
    attempts,     \* history: the paginated fetches begun, in order
    requests,     \* history: requests of the current paginated fetch
    answers,      \* history: what each of these requests was answered
    ended         \* history: how the latest paginated fetch ended

serviceVars == <<now, rows, locks, pool, poolsCreated, issued, encs,
                 pc, frame, outcome, log, trace, before, lifetime, order,
                 shutdown>>
toolVars    == <<toolPc, tool, toolResult, attempts, requests, answers,
                 ended>>
vars        == <<serviceVars, toolVars>>

\* ------------------------------------------------------------------ cipher
\* Fernet: a ciphertext binds the key, a fresh IV and the plaintext;
\* decryption succeeds only under the key that encrypted.
ServiceKey == "k"

encrypt(pt, iv) == [key |-> ServiceKey, iv |-> iv, pt |-> pt]

\* The IV of the k-th encryption a call does next: no two encryptions of a
\* run share an IV (IV 0 marks the texts stored before the run).
FreshIV(p, k) == 10 * p + encs[p] + k

\* A stored text that was not produced under the service's key
Corrupt(ct) == [ct EXCEPT !.key = "other"]

decrypt(ct) ==
    IF ct.key = ServiceKey THEN [ok |-> TRUE, pt |-> ct.pt]
                           ELSE [ok |-> FALSE, pt |-> 0]

\* A text (a log line, an exception's message) is its fixed wording and the
\* set of the values formatted into it, each tagged with what it is.
Text(wording, parts) == [wording |-> wording, parts |-> parts]

\* What cipher.decrypt raises on a text it cannot authenticate: Fernet's
\* InvalidToken takes no argument, str(e) is empty.
InvalidToken == [type |-> "InvalidToken", str |-> Text("", {})]

\* A column that is NULL: the row holds None, not a text.
Null == <<>>

\* A plaintext is a byte string.  The numbers from 0 on are the UTF-8
\* encodings of token strings; a negative number -b is a byte string that
\* is not UTF-8, b being its first byte, which no UTF-8 text starts with.
IsUtf8(pt) == pt >= 0

\* None.encode()
AttributeError ==
    [type |-> "AttributeError",
     str |-> Text("'NoneType' object has no attribute 'encode'", {})]

\* bytes.decode() on bytes that are not UTF-8: str(e) names the byte that
\* cannot be decoded and its position.
UnicodeDecodeError(pt) ==
    [type |-> "UnicodeDecodeError",
     str |-> Text("'utf-8' codec can't decode byte {byte} in position {position}: invalid start byte",
                  {<<"byte", -pt>>, <<"position", 0>>})]

\* self.cipher.decrypt(row[column].encode()).decode(): the string, or the
\* exception of the first of the three calls that raises.
Decoded(ct) ==
    IF DOMAIN ct = {} THEN [ok |-> FALSE, e |-> AttributeError]
    ELSE IF ~decrypt(ct).ok THEN [ok |-> FALSE, e |-> InvalidToken]
    ELSE IF ~IsUtf8(decrypt(ct).pt)
         THEN [ok |-> FALSE, e |-> UnicodeDecodeError(decrypt(ct).pt)]
    ELSE [ok |-> TRUE, str |-> decrypt(ct).pt]

\* ---------------------------------------------------------------- the store
\* Stored expiry: a timestamp read back without or with a time zone
Naive(t) == [secs |-> t, tz |-> "none"]
Utc(t)   == [secs |-> t, tz |-> "utc"]

MkRow(id, u, prov, active, created, exp) ==
    [id |-> id, user_id |-> u, provider |-> prov,
     access_token  |-> encrypt(100 * id + 1, 0),
     refresh_token |-> encrypt(100 * id + 2, 0),
     expires_at |-> exp, provider_metadata |-> id,
     is_active |-> active, created_at |-> created,
     updated_at |-> created, last_used_at |-> 0]

\* The table when the service starts:
\*   u1  an older active row and the canonical one, which leaves the refresh
\*       window's edge (300 s) after one second; its expiry has no time zone
\*   u2  a canonical row that has expired, and a newer inactive row
\*   u3  no row of this provider (an active row of another provider)
\*   u4  a canonical row whose access token does not decrypt
\*   u5  a canonical row whose refresh token does not decrypt
InitRows ==
    (1 :> MkRow(1, "u1", PROVIDER, TRUE, 1, Utc(Epoch - 50)))
 @@ (2 :> MkRow(2, "u1", PROVIDER, TRUE, 2, Naive(Epoch + RefreshWindow)))
 @@ (3 :> MkRow(3, "u2", PROVIDER, TRUE, 1, Utc(Epoch - 10)))
 @@ (4 :> MkRow(4, "u2", PROVIDER, FALSE, 5, Utc(Epoch + 5000)))
 @@ (5 :> MkRow(5, "u3", "procore", TRUE, 1, Utc(Epoch + 5000)))
 @@ (6 :> [MkRow(6, "u4", PROVIDER, TRUE, 1, Utc(Epoch + 5000))
              EXCEPT !.access_token = Corrupt(@)])
 @@ (7 :> [MkRow(7, "u5", PROVIDER, TRUE, 1, Utc(Epoch + 5000))
              EXCEPT !.refresh_token = Corrupt(@)])

\* Variant: the SELECT does not filter on provider.
fetchrow_AnyProvider(rs, user_id) ==
    LET match == {i \in DOMAIN rs : /\ rs[i].user_id = user_id
                                    /\ rs[i].is_active}
    IN  {i \in match : \A j \in match : rs[j].created_at <= rs[i].created_at}

\* Variant: the SELECT orders by created_at ascending.
fetchrow_Oldest(rs, user_id) ==
    LET match == {i \in DOMAIN rs : /\ rs[i].user_id = user_id
                                    /\ rs[i].provider = PROVIDER
                                    /\ rs[i].is_active}
    IN  {i \in match : \A j \in match : rs[i].created_at <= rs[j].created_at}

\* SELECT ... WHERE user_id = $1 AND provider = $2 AND is_active = TRUE
\* ORDER BY created_at DESC LIMIT 1: the set holds the row found, if any.
fetchrow(rs, user_id) ==
    LET match == {i \in DOMAIN rs : /\ rs[i].user_id = user_id
                                    /\ rs[i].provider = PROVIDER
                                    /\ rs[i].is_active}
    IN  {i \in match : \A j \in match : rs[j].created_at <= rs[i].created_at}

\* Variant: the UPDATE leaves the access_token column out.
UpdateTokens_KeepAccess(rs, cid, ea, er, exp, t) ==
    [i \in DOMAIN rs |->
        IF rs[i].id = cid
        THEN [rs[i] EXCEPT !.refresh_token = er,
                           !.expires_at = exp, !.updated_at = t]
        ELSE rs[i]]

\* UPDATE oauth_connections SET access_token, refresh_token, expires_at,
\* updated_at = NOW() WHERE id = $4
UpdateTokens(rs, cid, ea, er, exp, t) ==
    [i \in DOMAIN rs |->
        IF rs[i].id = cid
        THEN [rs[i] EXCEPT !.access_token = ea, !.refresh_token = er,
                           !.expires_at = exp, !.updated_at = t]
        ELSE rs[i]]

\* Variant: the last_used_at UPDATE matches no row.
UpdateLastUsed_Skipped(rs, cid, t) == rs

\* UPDATE oauth_connections SET last_used_at = NOW() WHERE id = $1
UpdateLastUsed(rs, cid, t) ==
    [i \in DOMAIN rs |->
        IF rs[i].id = cid THEN [rs[i] EXCEPT !.last_used_at = t] ELSE rs[i]]

\* ------------------------------------------------------------- expiry check
\* expires_at.replace(tzinfo=timezone.utc) when the stored value is naive
NormalizeUtc(e) == IF e.tz = "none" THEN [e EXCEPT !.tz = "utc"] ELSE e

\* Variant: the comparison includes the bound.
NeedsRefresh_Inclusive(expires_at, t) == expires_at.secs - t <= RefreshWindow

\* Variant: the difference is taken the other way round.
NeedsRefresh_Reversed(expires_at, t) == t - expires_at.secs < RefreshWindow

\* (expires_at - now).total_seconds() < 300
NeedsRefresh(expires_at, t) == expires_at.secs - t < RefreshWindow

\* ------------------------------------------------------------ the provider
\* The account a refresh token belongs to (token texts are numbered
\* 100 * account + k, so that every token issued is a new text)
Account(refresh_token) == refresh_token \div 100

\* Bodies of the n-th 200 answer for an account: the least body (only
\* access_token) or the full one (with refresh_token and expires_in).
ProviderData(acct, n) ==
    LET a == [access_token |-> 100 * acct + 10 + 2 * n]
        r == [access_token |-> a.access_token,
              refresh_token |-> 100 * acct + 11 + 2 * n]
    IN  {a}
        \cup {[access_token |-> a.access_token,
               refresh_token |-> r.refresh_token, expires_in |-> e]
                : e \in ExpiresInValues}

\* Variant: the refresh token of the response is never taken.
NewRefresh_KeepsOld(data, refresh_token) == refresh_token

\* data.get("refresh_token", refresh_token)
NewRefresh(data, refresh_token) ==
    IF "refresh_token" \in DOMAIN data THEN data.refresh_token
                                       ELSE refresh_token

\* data.get("expires_in", 3600)
ExpiresIn(data) ==
    IF "expires_in" \in DOMAIN data THEN data.expires_in ELSE DefaultExpiresIn

\* --------------------------------------------------------------- the locks
\* asyncio.Lock: acquire succeeds at once when the lock is free and nobody
\* waits; otherwise the caller queues.  release frees the lock and wakes the
\* first waiter, which takes the lock when it resumes.
NewLock(id) == [id |-> id, locked |-> FALSE, waiters |-> <<>>, woken |-> FALSE]

\* Variant: one lock for all users.
LockKey_Shared(user_id) == "all"

\* self._locks[user_id]: which lock a call of this user takes
LockKey(user_id) == user_id

\* Variant: every call installs a new lock.
EnsureLock_Always(ls, k) ==
    (k :> NewLock(Cardinality(DOMAIN ls) + 2)) @@ ls

\* if user_id not in self._locks: self._locks[user_id] = asyncio.Lock()
EnsureLock(ls, k) ==
    IF k \in DOMAIN ls THEN ls ELSE ls @@ (k :> NewLock(Cardinality(DOMAIN ls) + 1))

Released(lk) == [lk EXCEPT !.locked = FALSE, !.woken = (lk.waiters # <<>>)]

\* -------------------------------------------------------------- exceptions
TokenServiceError(message, status_code) ==
    [kind |-> "TokenServiceError", message |-> Text(message, {}),
     status_code |-> status_code]
StoreError     == [kind |-> "StoreError", status_code |-> 0]
TransportError == [kind |-> "TransportError", status_code |-> 0]

NotConnected ==
    TokenServiceError("No Microsoft connection found. Please connect your Outlook account.", 404)
DecryptionFailed ==
    TokenServiceError("Token decryption failed. Please reconnect.", 500)
RefreshFailed ==
    TokenServiceError("Token refresh failed. Please reconnect.", 401)

\* logger.error(f"Token decryption failed for user {user_id}: {e}")
DecryptLog(user_id, e) ==
    [level |-> "error",
     text |-> Text("Token decryption failed for user {user_id}: {e}",
                   {<<"user_id", user_id>>} \cup e.str.parts)]

\* logger.info(f"Refreshing token for user {user_id}")
RefreshingLog(user_id) ==
    [level |-> "info",
     text |-> Text("Refreshing token for user {user_id}",
                   {<<"user_id", user_id>>})]

\* logger.error(f"Token refresh failed: {response.status_code}")
RefreshFailedLog ==
    [level |-> "error",
     text |-> Text("Token refresh failed: {response.status_code}",
                   {<<"status_code", "not 200">>})]

MicrosoftToken(access_token, user_id, expires_at) ==
    [kind |-> "MicrosoftToken", access_token |-> access_token,
     user_id |-> user_id, expires_at |-> expires_at]

NoOutcome == [kind |-> "pending"]

\* close() has not been called.
NoShutdown == [pc |-> "idle", pool |-> 0, held |-> <<>>]

\* ---------------------------------------------------------------- initial
InitWith(rs) ==
    /\ now = Epoch
    /\ rows = rs
    /\ locks = <<>>
    /\ pool = 0
    /\ poolsCreated = 0
    /\ issued = [i \in DOMAIN InitRows |-> 0]
    /\ encs = [p \in Calls |-> 0]
    /\ pc = [p \in Calls |-> "idle"]
    /\ frame = [p \in Calls |-> <<>>]
    /\ outcome = [p \in Calls |-> NoOutcome]
    /\ log = [p \in Calls |-> <<>>]
    /\ trace = [p \in Calls |-> <<>>]
    /\ before = [p \in Calls |-> <<>>]
    /\ lifetime = [p \in Calls |-> 0]
    /\ order = [u \in Users |-> <<>>]
    /\ shutdown = NoShutdown
    /\ toolPc = "idle"
    /\ tool = <<>>
    /\ toolResult = NoOutcome
    /\ attempts = <<>>
    /\ requests = <<>>
    /\ answers = <<>>
    /\ ended = NoOutcome

Init == InitWith(InitRows)

\* ----------------------------------------------------- leaving get_token
\* Leaving the "async with" block releases the user's lock on every path;
\* the call's local variables are gone.
Leave(p) ==
    /\ locks' = [locks EXCEPT ![LockKey(frame[p].user_id)] = Released(@)]
    /\ frame' = [frame EXCEPT ![p] = [user_id |-> @.user_id]]

\* Variant: an exception leaves get_token with the lock still held.
Raise_KeepsLock(p, err) ==
    /\ pc' = [pc EXCEPT ![p] = "failed"]
    /\ outcome' = [outcome EXCEPT ![p] = err]
    /\ frame' = [frame EXCEPT ![p] = [user_id |-> @.user_id]]
    /\ UNCHANGED locks

\* An exception leaves get_token: the "async with" block is left.
Raise(p, err) ==
    /\ pc' = [pc EXCEPT ![p] = "failed"]
    /\ outcome' = [outcome EXCEPT ![p] = err]
    /\ Leave(p)

\* The calls that are suspended in a query on pool pl
Querying(pl) ==
    {p \in Calls : /\ pc[p] \in {"fetchrow", "persist", "touch"}
                   /\ frame[p].pool = pl}

\* The query p is suspended in can return: its pool is not one close()
\* was called on, or the query had been sent before that call (close()
\* lets the queries in flight end and refuses later ones).
Usable(p) ==
    \/ shutdown.pc = "idle"
    \/ shutdown.pool # frame[p].pool
    \/ p \in DOMAIN shutdown.held /\ shutdown.held[p] = pc[p]

\* pool = await self._get_pool(), up to the first await that suspends:
\* create_pool when self._pool is None, the SELECT otherwise.
GetPool(p, f) ==
    IF pool = 0
    THEN /\ pc' = [pc EXCEPT ![p] = "create_pool"]
         /\ frame' = [frame EXCEPT ![p] = f]
    ELSE /\ pc' = [pc EXCEPT ![p] = "fetchrow"]
         /\ frame' = [frame EXCEPT ![p] = f @@ [pool |-> pool]]

\* ------------------------------------------------------------- get_token
\* A call begins: create the user's lock if missing and try to take it.
\* Calls are numbered in the order in which they begin.
Start(p, u) ==
    /\ pc[p] = "idle"
    /\ \A q \in Calls : q < p => pc[q] # "idle"
    /\ LET k  == LockKey(u)
           ls == EnsureLock(locks, k)
       IN  IF ~ls[k].locked /\ ls[k].waiters = <<>>
           THEN /\ locks' = [ls EXCEPT ![k].locked = TRUE]
                /\ order' = [order EXCEPT ![u] = Append(@, p)]
                /\ GetPool(p, [user_id |-> u])
                /\ UNCHANGED trace
           ELSE /\ locks' = [ls EXCEPT ![k].waiters = Append(@, p)]
                /\ pc' = [pc EXCEPT ![p] = "waiting"]
                /\ frame' = [frame EXCEPT ![p] = [user_id |-> u]]
                /\ trace' = [trace EXCEPT ![p] = Append(@, "wait")]
                /\ UNCHANGED order
    /\ UNCHANGED <<shutdown, toolVars>>
    /\ UNCHANGED <<log, now, rows, pool, poolsCreated, issued, encs, outcome,
                   before, lifetime>>

\* A queued call is resumed after the holder released the lock.
WakeUp(p) ==
    /\ pc[p] = "waiting"
    /\ LET u == frame[p].user_id
           k == LockKey(u)
       IN  /\ locks[k].woken
           /\ Head(locks[k].waiters) = p
           /\ locks' = [locks EXCEPT ![k].locked = TRUE,
                                     ![k].woken = FALSE,
                                     ![k].waiters = Tail(@)]
           /\ order' = [order EXCEPT ![u] = Append(@, p)]
           /\ GetPool(p, frame[p])
    /\ UNCHANGED <<shutdown, toolVars>>
    /\ UNCHANGED <<log, now, rows, pool, poolsCreated, issued, encs, outcome,
                   trace, before, lifetime>>

\* asyncpg.create_pool returns: self._pool is overwritten with the new pool.
PoolCreated(p) ==
    /\ pc[p] = "create_pool"
    /\ poolsCreated' = poolsCreated + 1
    /\ pool' = poolsCreated + 1
    /\ frame' = [frame EXCEPT ![p] = @ @@ [pool |-> poolsCreated + 1]]
    /\ pc' = [pc EXCEPT ![p] = "fetchrow"]
    /\ UNCHANGED <<shutdown, toolVars>>
    /\ UNCHANGED <<log, now, rows, locks, issued, encs, outcome, trace, before,
                   lifetime, order>>

\* asyncpg.create_pool raises.
PoolFailed(p) ==
    /\ pc[p] = "create_pool"
    /\ Raise(p, StoreError)
    /\ UNCHANGED <<shutdown, toolVars>>
    /\ UNCHANGED <<log, now, rows, pool, poolsCreated, issued, encs, trace,
                   before, lifetime, order>>

\* _refresh_token is left, by return or by an exception, from inside
\* "async with httpx.AsyncClient()" after a response was received.
Returning == [kind |-> "return"]

\* The client block has been left: an exception of _refresh_token leaves
\* get_token and frees the lock; on return get_token takes the new access
\* token and sends the last_used_at UPDATE.
AfterClient(p, how) ==
    IF how.kind = "return"
    THEN /\ frame' = [frame EXCEPT ![p] =
                        [k \in DOMAIN frame[p] \ {"leaving"} |->
                            IF k = "access_token" THEN frame[p].new_access
                                                  ELSE frame[p][k]]]
         /\ pc' = [pc EXCEPT ![p] = "touch"]
         /\ UNCHANGED <<locks, outcome>>
    ELSE Raise(p, how)

\* The exit of the client block closes the connection the answer came on.
\* When it was kept alive, closing it is awaited and suspends the call once
\* more, with the lock still held; when the provider had closed it
\* (Connection: close) nothing is awaited and the call goes on in the same
\* step.
ExitClient(p, how) ==
    \/ /\ pc' = [pc EXCEPT ![p] = "aexit"]
       /\ frame' = [frame EXCEPT ![p] = @ @@ [leaving |-> how]]
       /\ UNCHANGED <<locks, outcome>>
    \/ AfterClient(p, how)

\* A store call (SELECT or UPDATE) raises, as it does on a pool that is
\* closing or closed; nothing was written.  The
\* UPDATE of the tokens raises inside _refresh_token.
StoreFailed(p) ==
    /\ pc[p] \in {"fetchrow", "persist", "touch"}
    /\ IF pc[p] = "persist" THEN ExitClient(p, StoreError)
                            ELSE Raise(p, StoreError)
    /\ UNCHANGED <<shutdown, toolVars>>
    /\ UNCHANGED <<log, now, rows, pool, poolsCreated, issued, encs, trace,
                   before, lifetime, order>>

\* The SELECT returns no row: 404.
FetchNone(p) ==
    /\ pc[p] = "fetchrow"
    /\ Usable(p)
    /\ fetchrow(rows, frame[p].user_id) = {}
    /\ Raise(p, NotConnected)
    /\ trace' = [trace EXCEPT ![p] = Append(@, "fetch")]
    /\ UNCHANGED <<shutdown, toolVars>>
    /\ UNCHANGED <<log, now, rows, pool, poolsCreated, issued, encs, before,
                   lifetime, order>>

\* The columns the SELECT lists
Selected(r) ==
    [id |-> r.id, user_id |-> r.user_id, access_token |-> r.access_token,
     refresh_token |-> r.refresh_token, expires_at |-> r.expires_at,
     provider_metadata |-> r.provider_metadata]

\* Variant: the log line also holds the stored text that failed.
DecryptFailed_LogsText(p) ==
    /\ pc[p] = "fetchrow"
    /\ Usable(p)
    /\ \E i \in fetchrow(rows, frame[p].user_id) :
          LET row == Selected(rows[i])
              a   == Decoded(row.access_token)
              r   == Decoded(row.refresh_token)
              bad == IF ~a.ok THEN row.access_token ELSE row.refresh_token
              l   == DecryptLog(frame[p].user_id, IF ~a.ok THEN a.e ELSE r.e)
          IN  /\ ~a.ok \/ ~r.ok
              /\ before' = [before EXCEPT ![p] = rows[i]]
              /\ log' = [log EXCEPT ![p] = Append(@,
                     [l EXCEPT !.text.parts = @ \cup {<<"ciphertext", bad>>}])]
    /\ Raise(p, DecryptionFailed)
    /\ trace' = [trace EXCEPT ![p] = Append(@, "fetch")]
    /\ UNCHANGED <<shutdown, toolVars>>
    /\ UNCHANGED <<now, rows, pool, poolsCreated, issued, encs, lifetime,
                   order>>

\* The SELECT returns the row but decrypting and decoding the access
\* token or, after it, the refresh token raises: whatever the exception
\* is, it is logged, 500.
DecryptFailed(p) ==
    /\ pc[p] = "fetchrow"
    /\ Usable(p)
    /\ \E i \in fetchrow(rows, frame[p].user_id) :
          LET row == Selected(rows[i])
              a   == Decoded(row.access_token)
              r   == Decoded(row.refresh_token)
          IN  /\ ~a.ok \/ ~r.ok
              /\ before' = [before EXCEPT ![p] = rows[i]]
              /\ log' = [log EXCEPT ![p] = Append(@,
                     DecryptLog(frame[p].user_id,
                                IF ~a.ok THEN a.e ELSE r.e))]
    /\ Raise(p, DecryptionFailed)
    /\ trace' = [trace EXCEPT ![p] = Append(@, "fetch")]
    /\ UNCHANGED <<shutdown, toolVars>>
    /\ UNCHANGED <<now, rows, pool, poolsCreated, issued, encs, lifetime,
                   order>>

\* The SELECT returns the row: decrypt, normalize the expiry, read the
\* clock (t) and either send the refresh request or the last_used_at UPDATE.
Fetched(p, t) ==
    /\ pc[p] = "fetchrow"
    /\ Usable(p)
    /\ now' = t
    /\ \E i \in fetchrow(rows, frame[p].user_id) :
          LET row == Selected(rows[i])
              a   == Decoded(row.access_token)
              r   == Decoded(row.refresh_token)
              expires_at == NormalizeUtc(row.expires_at)
          IN  /\ a.ok /\ r.ok
              /\ frame' = [frame EXCEPT ![p] = @ @@
                    [access_token |-> a.str, refresh_token |-> r.str,
                     expires_at |-> expires_at, connection_id |-> row.id]]
              /\ before' = [before EXCEPT ![p] = rows[i]]
              /\ lifetime' = [lifetime EXCEPT ![p] = expires_at.secs - t]
              /\ IF NeedsRefresh(expires_at, t)
                 THEN /\ pc' = [pc EXCEPT ![p] = "post"]
                      /\ log' = [log EXCEPT ![p] = Append(@,
                                     RefreshingLog(frame[p].user_id))]
                      /\ trace' = [trace EXCEPT
                                     ![p] = @ \o <<"fetch", "check", "post">>]
                 ELSE /\ pc' = [pc EXCEPT ![p] = "touch"]
                      /\ trace' = [trace EXCEPT
                                     ![p] = @ \o <<"fetch", "check">>]
                      /\ UNCHANGED log
    /\ UNCHANGED <<shutdown, toolVars>>
    /\ UNCHANGED <<rows, locks, pool, poolsCreated, issued, encs,
                   outcome, order>>

\* -------------------------------------------------------- _refresh_token
\* client.post raises (network failure): no connection of the client is
\* open, its block is left without suspending, and the exception leaves
\* get_token in the same step.
PostFailed(p) ==
    /\ pc[p] = "post"
    /\ Raise(p, TransportError)
    /\ trace' = [trace EXCEPT ![p] = Append(@, "neterr")]
    /\ UNCHANGED <<shutdown, toolVars>>
    /\ UNCHANGED <<log, now, rows, pool, poolsCreated, issued, encs, before,
                   lifetime, order>>

\* Variant: a rejected refresh still stamps last_used_at before raising.
PostRejected_Stamps(p) ==
    /\ pc[p] = "post"
    /\ ExitClient(p, RefreshFailed)
    /\ rows' = UpdateLastUsed(rows, frame[p].connection_id, now)
    /\ log' = [log EXCEPT ![p] = Append(@, RefreshFailedLog)]
    /\ trace' = [trace EXCEPT ![p] = Append(@, "rejected")]
    /\ UNCHANGED <<shutdown, toolVars>>
    /\ UNCHANGED <<now, pool, poolsCreated, issued, encs, before,
                   lifetime, order>>

\* response.status_code != 200: logged, 401 raised inside the client
\* block, nothing written.
PostRejected(p) ==
    /\ pc[p] = "post"
    /\ ExitClient(p, RefreshFailed)
    /\ log' = [log EXCEPT ![p] = Append(@, RefreshFailedLog)]
    /\ trace' = [trace EXCEPT ![p] = Append(@, "rejected")]
    /\ UNCHANGED <<shutdown, toolVars>>
    /\ UNCHANGED <<now, rows, pool, poolsCreated, issued, encs, before,
                   lifetime, order>>

\* 200: take the tokens from the body, encrypt them, compute the new expiry
\* from the clock as it is now (t), and send the UPDATE.
Posted(p, t) ==
    /\ pc[p] = "post"
    /\ now' = t
    /\ LET acct == Account(frame[p].refresh_token)
       IN  /\ \E data \in ProviderData(acct, issued[acct]) :
                LET new_access  == data.access_token
                    new_refresh == NewRefresh(data, frame[p].refresh_token)
                IN  frame' = [frame EXCEPT ![p] = @ @@
                       [data |-> data, new_access |-> new_access,
                        encrypted_access  |-> encrypt(new_access, FreshIV(p, 1)),
                        encrypted_refresh |-> encrypt(new_refresh, FreshIV(p, 2)),
                        refreshed_at |-> t,
                        new_expires_at |-> Utc(t + ExpiresIn(data))]]
           /\ issued' = [issued EXCEPT ![acct] = @ + 1]
    /\ encs' = [encs EXCEPT ![p] = @ + 2]
    /\ trace' = [trace EXCEPT ![p] = Append(@, "ok200")]
    /\ pc' = [pc EXCEPT ![p] = "persist"]
    /\ UNCHANGED <<shutdown, toolVars>>
    /\ UNCHANGED <<log, rows, locks, pool, poolsCreated, outcome, before,
                   lifetime, order>>

\* The UPDATE of the tokens is applied at time t; _refresh_token returns
\* new_access from inside the client block.
Persisted(p, t) ==
    /\ pc[p] = "persist"
    /\ Usable(p)
    /\ now' = t
    /\ rows' = UpdateTokens(rows, frame[p].connection_id,
                            frame[p].encrypted_access,
                            frame[p].encrypted_refresh,
                            frame[p].new_expires_at, t)
    /\ ExitClient(p, Returning)
    /\ trace' = [trace EXCEPT ![p] = Append(@, "persist")]
    /\ UNCHANGED <<shutdown, toolVars>>
    /\ UNCHANGED <<log, pool, poolsCreated, issued, encs, before, lifetime,
                   order>>

\* The awaited exit of the client block returns.
ClientClosed(p) ==
    /\ pc[p] = "aexit"
    /\ AfterClient(p, frame[p].leaving)
    /\ UNCHANGED <<shutdown, toolVars>>
    /\ UNCHANGED <<log, now, rows, pool, poolsCreated, issued, encs, trace,
                   before, lifetime, order>>

\* The value get_token returns
Returned(f) == MicrosoftToken(f.access_token, f.user_id, f.expires_at)

\* The last_used_at UPDATE is applied at time t; get_token returns and
\* frees the lock.
Touched(p, t) ==
    /\ pc[p] = "touch"
    /\ Usable(p)
    /\ now' = t
    /\ rows' = UpdateLastUsed(rows, frame[p].connection_id, t)
    /\ trace' = [trace EXCEPT ![p] = Append(@, "touch")]
    /\ pc' = [pc EXCEPT ![p] = "done"]
    /\ outcome' = [outcome EXCEPT ![p] = Returned(frame[p])]
    /\ Leave(p)
    /\ UNCHANGED <<shutdown, toolVars>>
    /\ UNCHANGED <<log, pool, poolsCreated, issued, encs, before, lifetime,
                   order>>

\* A call is suspended in an await on the store, the provider or the exit
\* of the client block
InFlight(p) ==
    pc[p] \in {"create_pool", "fetchrow", "post", "persist", "aexit", "touch"}

\* The clock values a resuming call may read: time passes while calls are
\* suspended, the clock never runs backwards, and a run spans at most
\* MaxTicks seconds.
Clock == now..(Epoch + MaxTicks)

Next ==
    \/ \E p \in Calls, u \in Callers : Start(p, u)
    \/ \E p \in Calls : WakeUp(p)
    \/ \E p \in Calls : PoolCreated(p)
    \/ \E p \in Calls : PoolFailed(p)
    \/ \E p \in Calls : StoreFailed(p)
    \/ \E p \in Calls : FetchNone(p)
    \/ \E p \in Calls : DecryptFailed(p)
    \/ \E p \in Calls, t \in Clock : Fetched(p, t)
    \/ \E p \in Calls : PostFailed(p)
    \/ \E p \in Calls : PostRejected(p)
    \/ \E p \in Calls, t \in Clock : Posted(p, t)
    \/ \E p \in Calls, t \in Clock : Persisted(p, t)
    \/ \E p \in Calls : ClientClosed(p)
    \/ \E p \in Calls, t \in Clock : Touched(p, t)

Spec == Init /\ [][Next]_vars

\* The same service when the callers are those of CallersOne
NextOne ==
    \/ \E p \in Calls, u \in CallersOne : Start(p, u)
    \/ \E p \in Calls : WakeUp(p)
    \/ \E p \in Calls : PoolCreated(p)
    \/ \E p \in Calls : PoolFailed(p)
    \/ \E p \in Calls : StoreFailed(p)
    \/ \E p \in Calls : FetchNone(p)
    \/ \E p \in Calls : DecryptFailed(p)
    \/ \E p \in Calls, t \in Clock : Fetched(p, t)
    \/ \E p \in Calls : PostFailed(p)
    \/ \E p \in Calls : PostRejected(p)
    \/ \E p \in Calls, t \in Clock : Posted(p, t)
    \/ \E p \in Calls, t \in Clock : Persisted(p, t)
    \/ \E p \in Calls : ClientClosed(p)
    \/ \E p \in Calls, t \in Clock : Touched(p, t)

SpecOne == Init /\ [][NextOne]_vars

\* The same service when the callers are those of CallersStored (the rows
\* that do not decrypt are both among theirs).
NextStored ==
    \/ \E p \in Calls, u \in CallersStored : Start(p, u)
    \/ \E p \in Calls : WakeUp(p)
    \/ \E p \in Calls : PoolCreated(p)
    \/ \E p \in Calls : PoolFailed(p)
    \/ \E p \in Calls : StoreFailed(p)
    \/ \E p \in Calls : FetchNone(p)
    \/ \E p \in Calls : DecryptFailed(p)
    \/ \E p \in Calls, t \in Clock : Fetched(p, t)
    \/ \E p \in Calls : PostFailed(p)
    \/ \E p \in Calls : PostRejected(p)
    \/ \E p \in Calls, t \in Clock : Posted(p, t)
    \/ \E p \in Calls, t \in Clock : Persisted(p, t)
    \/ \E p \in Calls : ClientClosed(p)
    \/ \E p \in Calls, t \in Clock : Touched(p, t)

\* The tables these callers may find: the access token of u4's row and the
\* refresh token of u5's row are each a text of another key or NULL.
StoredTables ==
    {[InitRows EXCEPT ![6].access_token = a, ![7].refresh_token = r] :
        a \in {Corrupt(InitRows[6].access_token), Null},
        r \in {Corrupt(InitRows[7].refresh_token), Null}}

InitStored == \E rs \in StoredTables : InitWith(rs)

SpecStored == InitStored /\ [][NextStored]_vars

\* ------------------------------------------------------------------ close
\* close() is called: nothing happens unless there is a pool; it awaits
\* the pool's close(), which refuses new queries and waits for those in
\* flight.
CloseBegin ==
    /\ shutdown.pc = "idle"
    /\ shutdown' = IF pool = 0
                   THEN [pc |-> "done", pool |-> 0, held |-> <<>>]
                   ELSE [pc |-> "closing", pool |-> pool,
                         held |-> [p \in Querying(pool) |-> pc[p]]]
    /\ UNCHANGED toolVars
    /\ UNCHANGED <<now, rows, locks, pool, poolsCreated, issued, encs, pc,
                   frame, outcome, log, trace, before, lifetime, order>>

\* The pool's close() returns: self._pool = None.
CloseEnd ==
    /\ shutdown.pc = "closing"
    /\ \A p \in DOMAIN shutdown.held : pc[p] # shutdown.held[p]
    /\ shutdown' = [shutdown EXCEPT !.pc = "done"]
    /\ pool' = 0
    /\ UNCHANGED toolVars
    /\ UNCHANGED <<now, rows, locks, poolsCreated, issued, encs, pc, frame,
                   outcome, log, trace, before, lifetime, order>>

\* The service with a close() call at any moment, before, between and
\* during the get_token calls of two users.
CallersClosing == {"u1", "u2"}

NextClosing ==
    \/ \E p \in Calls, u \in CallersClosing : Start(p, u)
    \/ \E p \in Calls : WakeUp(p)
    \/ \E p \in Calls : PoolCreated(p)
    \/ \E p \in Calls : PoolFailed(p)
    \/ \E p \in Calls : StoreFailed(p)
    \/ \E p \in Calls, t \in Clock : Fetched(p, t)
    \/ \E p \in Calls : PostFailed(p)
    \/ \E p \in Calls : PostRejected(p)
    \/ \E p \in Calls, t \in Clock : Posted(p, t)
    \/ \E p \in Calls, t \in Clock : Persisted(p, t)
    \/ \E p \in Calls : ClientClosed(p)
    \/ \E p \in Calls, t \in Clock : Touched(p, t)
    \/ CloseBegin
    \/ CloseEnd

SpecClosing == Init /\ [][NextClosing]_vars

\* The call p goes on: it is resumed with the lock it queued for, or the
\* await it is suspended in returns or raises.
Resumes(p) ==
    \/ WakeUp(p)
    \/ PoolCreated(p)
    \/ PoolFailed(p)
    \/ StoreFailed(p)
    \/ FetchNone(p)
    \/ DecryptFailed(p)
    \/ \E t \in Clock : Fetched(p, t)
    \/ PostFailed(p)
    \/ PostRejected(p)
    \/ \E t \in Clock : Posted(p, t)
    \/ \E t \in Clock : Persisted(p, t)
    \/ ClientClosed(p)
    \/ \E t \in Clock : Touched(p, t)

NextFair ==
    \/ \E p \in Calls, u \in CallersOne : Start(p, u)
    \/ \E p \in Calls : Resumes(p)

\* The event loop resumes every task that can run, and every await on the
\* store or the provider returns or raises in the end.
SpecFair == Init /\ [][NextFair]_vars /\ \A p \in Calls : WF_vars(Resumes(p))

\* ================================================================ server.py
GRAPH_BASE_URL == "https://graph.microsoft.com/v1.0"
CountFloor     == 1
CountCeiling   == 50

\* Arguments a tool call draws from.  A term is absent ("" stands for None
\* and for the empty string, both false in a condition) or present.
Terms        == {"", "x"}
Folders      == {"", "Sent", "Projects"}
ListCounts   == {0, 3, 25}
SearchCounts == {0, 3}
\* ctx.get_state("microsoft_token"): "" when the middleware bound none
TokenStates  == {"", "tok"}

\* What the mailbox API may answer
Statuses  == {200, 400, 401, 500}
PageSizes == {0, 1, 10}

\* folder_name.lower() on the names above
lower(folder_name) ==
    CASE folder_name = "Sent" -> "sent"
      [] folder_name = "Projects" -> "projects"
      [] OTHER -> folder_name

\* A resource path is the sequence of its segments.
WELL_KNOWN_FOLDERS ==
    [inbox   |-> <<"me", "mailFolders", "inbox", "messages">>,
     drafts  |-> <<"me", "mailFolders", "drafts", "messages">>,
     sent    |-> <<"me", "mailFolders", "sentItems", "messages">>,
     deleted |-> <<"me", "mailFolders", "deletedItems", "messages">>,
     junk    |-> <<"me", "mailFolders", "junkemail", "messages">>,
     archive |-> <<"me", "mailFolders", "archive", "messages">>]

\* An endpoint is a relative resource path or a full URL (a nextLink, which
\* embeds the query: skip tells the links of one chain apart).
Relative(path) == [http |-> FALSE, path |-> path, skip |-> 0]
NextLink(path, n) == [http |-> TRUE, path |-> path, skip |-> n]

\* url = endpoint if endpoint.startswith("http") else f"{GRAPH_BASE_URL}/{endpoint}"
Url(endpoint) ==
    IF endpoint.http THEN endpoint
    ELSE [http |-> TRUE, path |-> <<GRAPH_BASE_URL>> \o endpoint.path, skip |-> 0]

\* What client.get is given: the URL and params, which is None (no element)
\* for a full URL and the dict passed otherwise.
Request(endpoint, params) ==
    [url |-> Url(endpoint),
     params |-> IF endpoint.http THEN {} ELSE {params}]

ToolError(message) == [kind |-> "ToolError", message |-> message]
AuthMissing ==
    ToolError(Text("Microsoft authentication required. Please connect your Outlook account.", {}))
SessionExpired ==
    ToolError(Text("Session expired. Please reconnect your Outlook account.", {}))
GraphApiError(status_code) ==
    ToolError(Text("Microsoft Graph API error: {response.status_code}",
                   {<<"status_code", status_code>>}))

\* Variant: the comparison leaves the bound out.
MapResponse_Above400(response) ==
    IF response.status_code = 401
    THEN [ok |-> FALSE, error |-> SessionExpired]
    ELSE IF response.status_code > 400
    THEN [ok |-> FALSE, error |-> GraphApiError(response.status_code)]
    ELSE [ok |-> TRUE, json |-> response.json]

\* graph_get after client.get returned: raise on 401 and on any other
\* status >= 400, return response.json() otherwise.
MapResponse(response) ==
    IF response.status_code = 401
    THEN [ok |-> FALSE, error |-> SessionExpired]
    ELSE IF response.status_code >= 400
    THEN [ok |-> FALSE, error |-> GraphApiError(response.status_code)]
    ELSE [ok |-> TRUE, json |-> response.json]

\* dict.get(key, default)
Get(dict, key, default) == IF key \in DOMAIN dict THEN dict[key] ELSE default

\* Variant: the result is not cut to max_count.
Slice_All(items, max_count) == items

\* all_items[:max_count]
Slice(items, max_count) ==
    IF max_count >= 0
    THEN SubSeq(items, 1, IF max_count < Len(items) THEN max_count ELSE Len(items))
    ELSE SubSeq(items, 1, IF Len(items) + max_count > 0
                          THEN Len(items) + max_count ELSE 0)

\* Variant: the loop is left only when there is no nextLink.
Stop_OnlyWithoutLink(next_link, all_items, max_count) ==
    next_link = [http |-> FALSE, path |-> <<>>, skip |-> 0]

\* if not next_link or len(all_items) >= max_count: break
Stop(next_link, all_items, max_count) ==
    \/ next_link = [http |-> FALSE, path |-> <<>>, skip |-> 0]
    \/ Len(all_items) >= max_count

\* count = min(50, max(1, count))
Clamp(count) ==
    LET m == IF count > CountFloor THEN count ELSE CountFloor
    IN  IF m < CountCeiling THEN m ELSE CountCeiling

\* ------------------------------------------------------- query parameters
\* {"$top": count, "$orderby": ..., "$select": settings.email_list_fields}
BaseParams(count) ==
    ("$top" :> <<count>>) @@ ("$orderby" :> <<"receivedDateTime desc">>)
    @@ ("$select" :> <<"settings.email_list_fields">>)

\* A KQL term: field:"value", or "value" alone when field is "".
Term(field, value) == <<field, value>>

\* search_terms of the combined search, in the order they are appended
SearchTerms(query, subject, from_address) ==
    (IF query # "" THEN <<Term("", query)>> ELSE <<>>)
    \o (IF subject # "" THEN <<Term("subject", subject)>> ELSE <<>>)
    \o (IF from_address # "" THEN <<Term("from", from_address)>> ELSE <<>>)

\* filters of the combined search
Filters(has_attachments, unread_only) ==
    (IF has_attachments THEN <<"hasAttachments eq true">> ELSE <<>>)
    \o (IF unread_only THEN <<"isRead eq false">> ELSE <<>>)

\* params of the combined search: $search and $filter only when not empty.
\* A joined string is the sequence of its parts.
CombinedParams(a, count) ==
    LET terms   == SearchTerms(a.query, a.subject, a.from_address)
        filters == Filters(a.has_attachments, a.unread_only)
    IN  (IF terms # <<>> THEN "$search" :> terms ELSE "$top" :> <<count>>)
        @@ (IF filters # <<>> THEN "$filter" :> filters ELSE "$top" :> <<count>>)
        @@ BaseParams(count)

\* fallback_params of the individual search on one term
TermParams(term_name, term_value, count) ==
    ("$search" :> <<Term(IF term_name # "query" THEN term_name ELSE "",
                         term_value)>>)
    @@ BaseParams(count)

\* f"{term_name} search"
TermLabel(term_name) ==
    CASE term_name = "subject" -> "subject search"
      [] term_name = "from" -> "from search"
      [] term_name = "query" -> "query search"

\* One paginated fetch of a tool: the label its result is formatted under,
\* its first params, whether an exception of it is swallowed, and whether
\* its result is returned even when it is empty.
Fetch(label, params, swallow, last) ==
    [label |-> label, params |-> params, swallow |-> swallow, last |-> last]

\* Variant: the individual searches come in the order query, subject, from.
IndividualTerms_QueryFirst(a) ==
    <<<<"query", a.query>>, <<"subject", a.subject>>,
      <<"from", a.from_address>>>>

\* [("subject", subject), ("from", from_address), ("query", query)]
IndividualTerms(a) ==
    <<<<"subject", a.subject>>, <<"from", a.from_address>>,
      <<"query", a.query>>>>

RECURSIVE IndividualFetches(_, _)
\* The individual searches of the loop: one for every term that is not empty
IndividualFetches(terms, count) ==
    IF terms = <<>> THEN <<>>
    ELSE (IF Head(terms)[2] # ""
          THEN <<Fetch(TermLabel(Head(terms)[1]),
                       TermParams(Head(terms)[1], Head(terms)[2], count),
                       TRUE, FALSE)>>
          ELSE <<>>)
         \o IndividualFetches(Tail(terms), count)

\* Variant: an exception of the combined search is not caught.
SearchFetches_CombinedFatal(a, count) ==
    <<Fetch("combined search", CombinedParams(a, count), FALSE, FALSE)>>
    \o IndividualFetches(IndividualTerms(a), count)
    \o <<Fetch("recent emails fallback", BaseParams(count), FALSE, TRUE)>>

\* search_emails: combined search, individual searches, recent emails
SearchFetches(a, count) ==
    <<Fetch("combined search", CombinedParams(a, count), TRUE, FALSE)>>
    \o IndividualFetches(IndividualTerms(a), count)
    \o <<Fetch("recent emails fallback", BaseParams(count), FALSE, TRUE)>>

\* list_emails: one fetch, $top is min(50, count)
ListFetches(a, count) ==
    <<Fetch("list", BaseParams(IF count < CountCeiling THEN count
                                                       ELSE CountCeiling),
            FALSE, TRUE)>>

\* _format_search_results
FormatSearchResults(emails, strategy) ==
    IF emails = <<>>
    THEN [wording |-> "No emails found matching your search criteria.",
          found |-> 0, via |-> "", emails |-> <<>>]
    ELSE [wording |-> "Found {len(emails)} emails (via {strategy}):",
          found |-> Len(emails), via |-> strategy, emails |-> emails]

\* The text list_emails returns
FormatList(emails, folder) ==
    IF emails = <<>>
    THEN [wording |-> "No emails found in {folder}.",
          found |-> 0, via |-> folder, emails |-> <<>>]
    ELSE [wording |-> "Found {len(emails)} emails in {folder}:",
          found |-> Len(emails), via |-> folder, emails |-> emails]

\* ------------------------------------------------------------ a tool call
EmptyDict == <<>>

\* A missing nextLink (None) or an empty one: false in "if not next_link"
NoLink == [http |-> FALSE, path |-> <<>>, skip |-> 0]

SearchArgs ==
    [query : Terms, folder : Folders, from_address : Terms, subject : Terms,
     has_attachments : BOOLEAN, unread_only : BOOLEAN, count : SearchCounts]
ListArgs == [folder : Folders, count : ListCounts]

\* The locals of a tool call when it begins
Locals(name, a, token) ==
    [name |-> name, args |-> a, token |-> token, count |-> Clamp(a.count),
     endpoint |-> NoLink,
     fetches |-> IF name = "search_emails"
                 THEN SearchFetches(a, Clamp(a.count))
                 ELSE ListFetches(a, Clamp(a.count)),
     k |-> 0, all_items |-> <<>>,
     current_endpoint |-> NoLink, current_params |-> EmptyDict]

\* What is kept of the locals once the call is over
Ended(t) == [name |-> t.name, args |-> t.args, token |-> t.token,
             count |-> t.count, endpoint |-> t.endpoint]

\* The values of the tool variables after a step
After(p, t, result, att, reqs, ans, end) ==
    [pc |-> p, tool |-> t, result |-> result, attempts |-> att,
     requests |-> reqs, answers |-> ans, ended |-> end]

Continue(nx) ==
    /\ toolPc' = nx.pc
    /\ tool' = nx.tool
    /\ toolResult' = nx.result
    /\ attempts' = nx.attempts
    /\ requests' = nx.requests
    /\ answers' = nx.answers
    /\ ended' = nx.ended

\* The text the tool returns for the emails of a fetch
Format(t, emails, label) ==
    IF t.name = "search_emails" THEN FormatSearchResults(emails, label)
                                ELSE FormatList(emails, t.args.folder)

\* A request as it is sent: have is len(all_items) at that moment.
Sent(endpoint, params, have) ==
    [request |-> Request(endpoint, params), have |-> have]

RECURSIVE BeginFetch(_, _, _, _), EndFetch(_, _, _, _, _, _)

\* graph_get_paginated is called for the k-th fetch of the tool and runs up
\* to its first client.get: none when max_count is not positive (the fetch
\* returns no item) and none when no token is bound (graph_get raises).
BeginFetch(t, k, att, end) ==
    LET f  == t.fetches[k]
        a  == [label |-> f.label, endpoint |-> t.endpoint, params |-> f.params]
        t1 == [t EXCEPT !.k = k, !.all_items = <<>>,
                        !.current_endpoint = t.endpoint,
                        !.current_params = f.params]
    IN  IF ~(0 < t.count)
        THEN EndFetch(t1, k, Append(att, a),
                      [ok |-> TRUE, items |-> Slice(<<>>, t.count)],
                      <<>>, <<>>)
        ELSE IF t.token = ""
        THEN EndFetch(t1, k, Append(att, a),
                      [ok |-> FALSE, error |-> AuthMissing], <<>>, <<>>)
        ELSE After("page", t1, NoOutcome, Append(att, a),
                   <<Sent(t.endpoint, f.params, 0)>>, <<>>, end)

\* graph_get_paginated returned or raised in the k-th fetch: the tool
\* returns its emails, goes on to the next fetch, or lets the exception out.
EndFetch(t, k, att, r, reqs, ans) ==
    LET f == t.fetches[k]
    IN  IF r.ok
        THEN IF f.last \/ r.items # <<>>
             THEN After("done", Ended(t), Format(t, r.items, f.label),
                        att, reqs, ans, r)
             ELSE BeginFetch(t, k + 1, att, r)
        ELSE IF f.swallow
             THEN BeginFetch(t, k + 1, att, r)
             ELSE After("failed", Ended(t), r.error, att, reqs, ans, r)

\* resolve_folder without a lookup: no name, or a well-known one
IsKnown(folder_name) ==
    folder_name = "" \/ lower(folder_name) \in DOMAIN WELL_KNOWN_FOLDERS

KnownFolder(folder_name) ==
    IF folder_name = "" THEN WELL_KNOWN_FOLDERS["inbox"]
                        ELSE WELL_KNOWN_FOLDERS[lower(folder_name)]

\* graph_get(ctx, "me/mailFolders", **{"$filter": f"displayName eq '{folder_name}'"})
FolderLookup(folder_name) ==
    Sent(Relative(<<"me", "mailFolders">>),
         "$filter" :> <<"displayName eq", folder_name>>, 0)

\* A tool is called: clamp count and resolve the folder, which asks the API
\* only for a name that is not well known (and falls back to the inbox
\* when that get raises, as it does at once without a token); then begin
\* the first fetch.
CallTool(name, a, token) ==
    /\ toolPc = "idle"
    /\ LET t == Locals(name, a, token)
       IN  IF IsKnown(a.folder)
           THEN Continue(BeginFetch(
                    [t EXCEPT !.endpoint = Relative(KnownFolder(a.folder))],
                    1, <<>>, NoOutcome))
           ELSE IF token = ""
           THEN Continue(BeginFetch(
                    [t EXCEPT !.endpoint = Relative(WELL_KNOWN_FOLDERS["inbox"])],
                    1, <<>>, NoOutcome))
           ELSE Continue(After("resolve", t, NoOutcome, <<>>,
                               <<FolderLookup(a.folder)>>, <<>>, NoOutcome))
    /\ UNCHANGED serviceVars

SearchEmails(a, token) == CallTool("search_emails", a, token)

ListEmails(a, token) == CallTool("list_emails", a, token)

\* -------------------------------------------------------- the mailbox API
Response(status_code, json) == [status_code |-> status_code, json |-> json]

\* In the history of answers: client.get raised, there is no response
\* (status 0 is none that a response has).
NoResponse == [status_code |-> 0, json |-> EmptyDict]

\* Emails are numbered by the fetch and the request that brought them.
Emails(k, r, n) == [i \in 1..n |-> 1000 * k + 100 * r + i]

\* Bodies of a 200 answer to the r-th request of fetch k: a page of emails
\* with or without a nextLink, or a body without "value".
PageBodies(path, k, r) ==
    {"value" :> Emails(k, r, n) : n \in PageSizes}
    \cup {("value" :> Emails(k, r, n))
          @@ ("@odata.nextLink" :> NextLink(<<GRAPH_BASE_URL>> \o path, r))
             : n \in PageSizes}
    \cup {EmptyDict}

PageResponses(path, k, r) ==
    {Response(200, b) : b \in PageBodies(path, k, r)}
    \cup {Response(c, EmptyDict) : c \in Statuses \ {200}}

\* Answers to the folder lookup: no folder of that name, or one
FolderResponses ==
    {Response(200, "value" :> <<>>), Response(200, "value" :> <<[id |-> "AAMk"]>>)}
    \cup {Response(c, EmptyDict) : c \in Statuses \ {200}}

\* resolve_folder after its graph_get returned or raised
FolderFound(t, r) ==
    IF r.ok /\ Get(r.json, "value", <<>>) # <<>>
    THEN Relative(<<"me", "mailFolders", r.json["value"][1].id, "messages">>)
    ELSE Relative(WELL_KNOWN_FOLDERS["inbox"])

\* The locals of the tool call without what graph_get holds while it
\* leaves its client block
Resumed(t) == [f \in DOMAIN t \ {"leaving", "at"} |-> t[f]]

\* graph_get leaves `async with httpx.AsyncClient()` with a response on a
\* connection that is kept alive: closing the client returns to the event
\* loop, with the response (and what follows from it: the raise of lines
\* 81-84 or the return of line 85) still inside graph_get.
ExitGraphClient(response) ==
    /\ toolPc' = "aexit"
    /\ tool' = tool @@ [leaving |-> response, at |-> toolPc]
    /\ UNCHANGED <<toolResult, attempts, requests, answers, ended>>

\* graph_get has left its client block with the answer of the folder
\* lookup: resolve_folder returns the folder found or the inbox, and the
\* first fetch begins.
FolderReturned(t, response) ==
    Continue(BeginFetch(
        [t EXCEPT !.endpoint = FolderFound(t, MapResponse(response))],
        1, <<>>, NoOutcome))

\* The folder lookup is answered: on a connection that is kept alive the
\* call is suspended while the client closes, on one the answer closes
\* (Connection: close) it goes on in the same step.
FolderAnswered(response) ==
    /\ toolPc = "resolve"
    /\ \/ ExitGraphClient(response)
       \/ FolderReturned(tool, response)
    /\ UNCHANGED serviceVars

\* client.get of the folder lookup raises (network failure, timeout).
FolderGetRaised ==
    /\ toolPc = "resolve"
    /\ Continue(BeginFetch(
           [tool EXCEPT !.endpoint = Relative(WELL_KNOWN_FOLDERS["inbox"])],
           1, <<>>, NoOutcome))
    /\ UNCHANGED serviceVars

\* What the histories keep when the API chains links without end: the
\* first MaxRequests requests and answers
Kept(h) == IF Len(h) > MaxRequests THEN SubSeq(h, 1, MaxRequests) ELSE h

\* graph_get has left its client block with the answer of a request of the
\* current fetch: it raises or returns the body; graph_get_paginated
\* extends all_items and either returns all_items[:max_count] or sends the
\* next request, to the nextLink and with empty params. The histories are
\* cut to their first requests when the API may chain links without end.
PageReturned(t, response, chained) ==
    LET r    == MapResponse(response)
        H(h) == IF chained THEN Kept(h) ELSE h
    IN  IF ~r.ok
        THEN Continue(EndFetch(t, t.k, attempts,
                               [ok |-> FALSE, error |-> r.error],
                               requests, H(Append(answers, response))))
        ELSE LET items     == Get(r.json, "value", <<>>)
                 all_items == t.all_items \o items
                 next_link == Get(r.json, "@odata.nextLink", NoLink)
             IN  IF Stop(next_link, all_items, t.count)
                 THEN Continue(EndFetch(
                          [t EXCEPT !.all_items = all_items],
                          t.k, attempts,
                          [ok |-> TRUE,
                           items |-> Slice(all_items, t.count)],
                          requests, H(Append(answers, response))))
                 ELSE /\ toolPc' = "page"
                      /\ tool' = [t EXCEPT
                                    !.all_items = all_items,
                                    !.current_endpoint = next_link,
                                    !.current_params = EmptyDict]
                      /\ requests' = H(Append(requests,
                            Sent(next_link, EmptyDict, Len(all_items))))
                      /\ answers' = H(Append(answers, response))
                      /\ UNCHANGED <<toolResult, attempts, ended>>

\* The answer leads to one more request
AsksMore(t, response) ==
    LET r == MapResponse(response)
    IN  /\ r.ok
        /\ ~Stop(Get(r.json, "@odata.nextLink", NoLink),
                 t.all_items \o Get(r.json, "value", <<>>), t.count)

\* A request of the current fetch is answered: the call is suspended while
\* the client closes, or goes on in the same step (Connection: close).
PageAnswered(response) ==
    /\ toolPc = "page"
    /\ AsksMore(tool, response) => Len(requests) < MaxRequests
    /\ \/ ExitGraphClient(response)
       \/ PageReturned(tool, response, FALSE)
    /\ UNCHANGED serviceVars

\* The client of graph_get is closed: the call goes on from where the
\* answer left it.
GraphClientClosed ==
    /\ toolPc = "aexit"
    /\ IF tool.at = "resolve"
       THEN FolderReturned(Resumed(tool), tool.leaving)
       ELSE PageReturned(Resumed(tool), tool.leaving, FALSE)
    /\ UNCHANGED serviceVars

\* Variant: the exception is caught and what was accumulated is returned.
PageGetRaised_ReturnsPartial ==
    /\ toolPc = "page"
    /\ Continue(EndFetch(tool, tool.k, attempts,
                         [ok |-> TRUE,
                          items |-> Slice(tool.all_items, tool.count)],
                         requests, Append(answers, NoResponse)))
    /\ UNCHANGED serviceVars

\* client.get of the current fetch raises (network failure, timeout).
PageGetRaised ==
    /\ toolPc = "page"
    /\ Continue(EndFetch(tool, tool.k, attempts,
                         [ok |-> FALSE, error |-> TransportError],
                         requests, Append(answers, NoResponse)))
    /\ UNCHANGED serviceVars

\* What the API may answer to the request in flight
Answers ==
    IF toolPc = "page"
    THEN PageResponses(tool.endpoint.path, tool.k, Len(requests))
    ELSE {}

ToolsNext ==
    \/ \E a \in SearchArgs, token \in TokenStates : SearchEmails(a, token)
    \/ \E a \in ListArgs, token \in TokenStates : ListEmails(a, token)
    \/ \E response \in FolderResponses : FolderAnswered(response)
    \/ FolderGetRaised
    \/ \E response \in Answers : PageAnswered(response)
    \/ PageGetRaised
    \/ GraphClientClosed

Tools == Init /\ [][ToolsNext]_vars

\* ------------------------------------------- an API that never ends a chain
\* What the API may answer when it is free to chain up next links without
\* end: as before, or an empty page with another nextLink.
ChainResponses(path, k, r) ==
    PageResponses(path, k, r)
    \cup {Response(200, ("value" :> Emails(k, r, 0))
                        @@ ("@odata.nextLink"
                              :> NextLink(<<GRAPH_BASE_URL>> \o path, r + 1)))}

ChainAnswers ==
    IF toolPc = "page"
    THEN ChainResponses(tool.endpoint.path, tool.k, Len(requests))
    ELSE {}

\* A request of the current fetch is answered, as in PageAnswered, by an
\* API that may send a nextLink with every page: the while loop of
\* graph_get_paginated goes round as long as all_items is short of
\* max_count and the page has a nextLink.
PageAnsweredChained(response) ==
    /\ toolPc = "page"
    /\ \/ ExitGraphClient(response)
       \/ PageReturned(tool, response, TRUE)
    /\ UNCHANGED serviceVars

\* The client of graph_get is closed, as in GraphClientClosed.
GraphClientClosedChained ==
    /\ toolPc = "aexit"
    /\ IF tool.at = "resolve"
       THEN FolderReturned(Resumed(tool), tool.leaving)
       ELSE PageReturned(Resumed(tool), tool.leaving, TRUE)
    /\ UNCHANGED serviceVars

\* client.get of the current fetch raises, as in PageGetRaised, after
\* any number of pages.
PageGetRaisedChained ==
    /\ toolPc = "page"
    /\ Continue(EndFetch(tool, tool.k, attempts,
                         [ok |-> FALSE, error |-> TransportError],
                         requests, Kept(Append(answers, NoResponse))))
    /\ UNCHANGED serviceVars

\* The get in flight returns or raises.
GetCompletes ==
    \/ \E response \in FolderResponses : FolderAnswered(response)
    \/ FolderGetRaised
    \/ \E response \in ChainAnswers : PageAnsweredChained(response)
    \/ PageGetRaisedChained
    \/ GraphClientClosedChained

PagingNext ==
    \/ \E a \in ListArgs, token \in TokenStates : ListEmails(a, token)
    \/ GetCompletes

\* Every get that is in flight returns or raises in the end.
Paging == Init /\ [][PagingNext]_vars /\ WF_vars(GetCompletes)

\* =================================================================== claims
Has(p, e)   == \E i \in DOMAIN trace[p] : trace[p][i] = e
Count(p, e) == Cardinality({i \in DOMAIN trace[p] : trace[p][i] = e})
Started(p)  == pc[p] # "idle"
SameUser(p, q) ==
    Started(p) /\ Started(q) /\ frame[p].user_id = frame[q].user_id

\* q took the user's lock right after p released it
Follows(p, q) ==
    /\ SameUser(p, q)
    /\ \E i \in DOMAIN order[frame[p].user_id] :
          /\ i + 1 \in DOMAIN order[frame[p].user_id]
          /\ order[frame[p].user_id][i] = p
          /\ order[frame[p].user_id][i + 1] = q

\* q queued on the lock, p refreshed and returned, q ran next and has
\* evaluated the token it read
ConcurrentPair(p, q) ==
    /\ Follows(p, q)
    /\ Has(q, "wait")
    /\ pc[p] = "done" /\ Has(p, "persist")
    /\ Has(q, "check")

\* C1 as stated: of two concurrent calls of one user whose first refreshed
\* successfully, the second sends no refresh request (one request in total)
\* and returns the access token the first persisted.
C1_SecondNeverRefreshes ==
    \A p, q \in Calls :
        ConcurrentPair(p, q) =>
            /\ Count(p, "post") + Count(q, "post") = 1
            /\ pc[q] = "done" =>
                  outcome[q].access_token = outcome[p].access_token

\* C1 amended: the same, provided the token the first caller persisted has
\* at least 300 s left when the second caller evaluates it.
C1_SecondReusesFreshToken ==
    \A p, q \in Calls :
        ConcurrentPair(p, q) /\ lifetime[q] >= 300 =>
            /\ Count(p, "post") + Count(q, "post") = 1
            /\ pc[q] = "done" =>
                  outcome[q].access_token = outcome[p].access_token

C1_Witness ==
    \E p, q \in Calls :
        /\ ConcurrentPair(p, q) /\ lifetime[q] >= 300
        /\ pc[q] = "done" /\ ~Has(q, "post")

\* C2: at most one call of a user is between taking the user's lock and
\* its return, and a user's lock, once created, is never replaced or removed.
C2_Mutex ==
    \A p, q \in Calls :
        p # q /\ SameUser(p, q) => ~(InFlight(p) /\ InFlight(q))

C2_LockKept ==
    \A u \in DOMAIN locks : u \in DOMAIN locks' /\ locks'[u].id = locks[u].id

C2_PerUserLockOrdersCalls == []C2_Mutex /\ [][C2_LockKept]_vars

C2_Witness ==
    \E p, q \in Calls :
        SameUser(p, q) /\ pc[p] = "post" /\ pc[q] = "waiting"

\* C3: a call that cannot proceed is held up only by an unfinished call of
\* the same user; calls of other users never block it.
C3_OnlySameUserBlocks ==
    \A p \in Calls :
        pc[p] = "waiting" /\ ~ENABLED WakeUp(p) =>
            \E q \in Calls :
                q # p /\ SameUser(p, q) /\ pc[q] \notin {"done", "failed"}

C3_Witness ==
    \E p, q \in Calls :
        /\ p < q /\ Started(q) /\ ~SameUser(p, q)
        /\ pc[p] = "persist"
        /\ pc[q] = "done" /\ Has(q, "persist")

\* C4: the expiry get_token returns is the expiry the row holds for the
\* returned access token when the call returns (the stored one when no
\* refresh occurred, the newly persisted one after a refresh).
C4_ReturnedExpiryIsCurrent ==
    [][\A p \in Calls :
          pc[p] = "touch" /\ pc'[p] = "done" =>
              outcome'[p].expires_at =
                  NormalizeUtc(rows'[frame[p].connection_id].expires_at)]_vars

\* C5: a call that evaluated the stored token sent the refresh request if
\* and only if the remaining lifetime was below 300 s.
C5_RefreshIffInsideWindow ==
    \A p \in Calls :
        Has(p, "check") => (Has(p, "post") <=> lifetime[p] < 300)

C5_Witness ==
    \E p, q \in Calls :
        /\ lifetime[p] < 0 /\ Has(p, "post")
        /\ lifetime[q] = 300 /\ Has(q, "check") /\ ~Has(q, "post")

\* C6: when the provider rejects the refresh, the call fails with status
\* 401 (at once, or after the awaited exit of the client block) having sent
\* exactly one request; no step from the rejection to the failure writes to
\* the store, and at the failure the row is as the call fetched it.
C6_RejectedRefreshLeavesRow ==
    [][\A p \in Calls :
          Has(p, "rejected")' /\ pc'[p] # pc[p] =>
                /\ pc[p] \in {"post", "aexit"}
                /\ pc'[p] \in {"aexit", "failed"}
                /\ (pc[p] = "aexit" => pc'[p] = "failed")
                /\ (pc'[p] = "failed" =>
                        /\ outcome'[p].kind = "TokenServiceError"
                        /\ outcome'[p].status_code = 401)
                /\ Count(p, "post")' = 1
                /\ rows' = rows
                /\ rows'[frame[p].connection_id] = before[p]]_vars

C6_Witness ==
    \E p \in Calls :
        /\ pc[p] = "failed" /\ Has(p, "rejected")
        /\ rows[before[p].id] = before[p]

\* C7: the UPDATE of a successful refresh stores the response's access
\* token, the response's refresh token or else the previous one, and as
\* expiry the time of the refresh plus expires_in (3600 if absent).
C7_RefreshPersistsResponse ==
    [][\A p \in Calls :
          pc[p] = "persist" /\ Has(p, "persist")' =>
              LET d == frame[p].data
                  r == rows'[frame[p].connection_id]
              IN  /\ decrypt(r.access_token) =
                        [ok |-> TRUE, pt |-> d.access_token]
                  /\ decrypt(r.refresh_token) =
                        [ok |-> TRUE,
                         pt |-> IF "refresh_token" \in DOMAIN d
                                THEN d.refresh_token
                                ELSE decrypt(before[p].refresh_token).pt]
                  /\ r.expires_at.secs =
                        frame[p].refreshed_at +
                            (IF "expires_in" \in DOMAIN d
                             THEN d.expires_in ELSE 3600)]_vars

C7_Witness ==
    \E p \in Calls :
        /\ pc[p] = "touch" /\ Has(p, "persist")
        /\ DOMAIN frame[p].data = {"access_token"}
        /\ decrypt(rows[frame[p].connection_id].refresh_token).pt =
              decrypt(before[p].refresh_token).pt

\* The most recently created active row of a user for the provider
IsCanonical(rs, i, u) ==
    /\ rs[i].user_id = u /\ rs[i].provider = "microsoft" /\ rs[i].is_active
    /\ \A j \in DOMAIN rs \ {i} :
          rs[j].user_id = u /\ rs[j].provider = "microsoft" /\ rs[j].is_active
              => rs[j].created_at < rs[i].created_at

\* C8: no step creates or deletes a row or changes a row's active flag,
\* provider, user, creation time or metadata, and a row changes only by a
\* store write of a call that fetched it as its user's canonical row.
C8_WritesOnlyCanonicalRow ==
    [][/\ DOMAIN rows' = DOMAIN rows
       /\ \A i \in DOMAIN rows :
            /\ rows'[i].id = rows[i].id
            /\ rows'[i].is_active = rows[i].is_active
            /\ rows'[i].provider = rows[i].provider
            /\ rows'[i].user_id = rows[i].user_id
            /\ rows'[i].created_at = rows[i].created_at
            /\ rows'[i].provider_metadata = rows[i].provider_metadata
            /\ rows'[i] # rows[i] =>
                  \E p \in Calls :
                      /\ pc[p] \in {"persist", "touch"} /\ pc'[p] # pc[p]
                      /\ before[p].id = i
                      /\ IsCanonical(rows, i, frame[p].user_id)]_vars

C8_Witness ==
    \E p \in Calls :
        /\ pc[p] = "done" /\ Has(p, "persist")
        /\ rows[before[p].id] # InitRows[before[p].id]
        /\ \A i \in DOMAIN rows \ {before[p].id} : rows[i] = InitRows[i]

\* C9: a call that returned a token stamped last_used_at exactly once, as
\* its last store write, and after a refresh the refreshed tokens and expiry
\* were in the row before that stamp.
C9_Stamped ==
    \A p \in Calls :
        pc[p] = "done" =>
            /\ Count(p, "touch") = 1
            /\ trace[p][Len(trace[p])] = "touch"
            /\ Has(p, "post") =>
                  \E i \in DOMAIN trace[p] :
                      trace[p][i] = "persist" /\ i < Len(trace[p])

C9_Return ==
    \A p \in Calls :
        pc[p] # "done" /\ pc'[p] = "done" =>
            LET cid == frame[p].connection_id
            IN  /\ rows'[cid].last_used_at = now'
                /\ Has(p, "post") =>
                      /\ rows[cid].access_token = frame[p].encrypted_access
                      /\ rows[cid].refresh_token = frame[p].encrypted_refresh
                      /\ rows[cid].expires_at = frame[p].new_expires_at
                      /\ decrypt(rows[cid].access_token).pt =
                            outcome'[p].access_token

C9_LastUsedStampedOnce == []C9_Stamped /\ [][C9_Return]_vars

C9_Witness ==
    \E p, q \in Calls :
        /\ pc[p] = "done" /\ Has(p, "persist")
        /\ pc[q] = "done" /\ ~Has(q, "post")

\* The token columns and the expiry of a row
Credentials(r) == <<r.access_token, r.refresh_token, r.expires_at>>

\* C10: two back-to-back calls of a user that both find the stored token
\* outside the refresh window return the same access token, send at most
\* one refresh request together, and leave the row's encrypted tokens and
\* expiry as they were.
C10_BackToBackSameToken ==
    \A p, q \in Calls :
        /\ Follows(p, q) /\ pc[p] = "done" /\ pc[q] = "done"
        /\ lifetime[p] >= 300 /\ lifetime[q] >= 300
        => /\ outcome[q].access_token = outcome[p].access_token
           /\ Count(p, "post") + Count(q, "post") <= 1
           /\ Credentials(before[q]) = Credentials(before[p])
           /\ (\A r \in Calls : ~Follows(q, r)) =>
                 Credentials(rows[before[q].id]) = Credentials(before[p])

C10_Witness ==
    \E p, q \in Calls :
        /\ Follows(p, q) /\ pc[p] = "done" /\ pc[q] = "done"
        /\ lifetime[p] >= 300 /\ lifetime[q] >= 300
        /\ rows[before[q].id].last_used_at > before[q].last_used_at

\* C11: when the SELECT of a call returns and the user has no active row
\* of the provider, the call fails with status 404; it has sent no request
\* to the provider and no step of it has written to the store.
C11_NoRowIsNotConnected ==
    [][\A p \in Calls :
          /\ pc[p] = "fetchrow" /\ Has(p, "fetch")'
          /\ ~\E i \in DOMAIN rows : IsCanonical(rows, i, frame[p].user_id)
          => /\ pc'[p] = "failed"
             /\ outcome'[p].kind = "TokenServiceError"
             /\ outcome'[p].status_code = 404
             /\ ~Has(p, "post")' /\ ~Has(p, "persist")' /\ ~Has(p, "touch")'
             /\ rows' = rows /\ issued' = issued]_vars

C11_Witness ==
    \E p \in Calls :
        /\ pc[p] = "failed" /\ outcome[p].status_code = 404
        /\ frame[p].user_id = "u3" /\ Has(p, "fetch")

\* Token material of a row: the stored texts of both tokens, what they
\* decrypt to, and the bytes of that
Plaintexts(r) ==
    {decrypt(ct).pt : ct \in {c \in {r.access_token, r.refresh_token} :
                                 DOMAIN c # {} /\ decrypt(c).ok}}

Material(r) ==
    {<<"ciphertext", ct>> : ct \in {c \in {r.access_token, r.refresh_token} :
                                       DOMAIN c # {}}}
    \cup {<<"plaintext", pt>> : pt \in Plaintexts(r)}
    \cup {<<"byte", -pt>> : pt \in {q \in Plaintexts(r) : ~IsUtf8(q)}}

Leaks(text, r) ==
    \E part \in text.parts :
        \E m \in Material(r) : part[1] = m[1] /\ part[2] = m[2]

\* A stored text that cannot be decrypted: there is none, or the cipher
\* rejects it.
Undecryptable(ct) == DOMAIN ct = {} \/ ~decrypt(ct).ok

\* The C12 step: the SELECT of p returns the canonical row and one of its
\* two stored tokens cannot be decrypted.
C12_Step(p) ==
    /\ pc[p] = "fetchrow" /\ Has(p, "fetch")'
    /\ \E i \in DOMAIN rows :
          /\ IsCanonical(rows, i, frame[p].user_id)
          /\ \/ Undecryptable(rows[i].access_token)
             \/ Undecryptable(rows[i].refresh_token)

\* C12: when the SELECT of a call returns the canonical row and one of its
\* two stored tokens cannot be decrypted, the call fails with status 500, has sent no
\* provider request, no step of it has written to the store, and neither
\* a line it logged nor the error's message holds a stored text, a
\* plaintext of the row or a byte of one.
C12_DecryptionFailedHidesTokens ==
    [][\A p \in Calls :
          C12_Step(p)
          => /\ pc'[p] = "failed"
             /\ outcome'[p].kind = "TokenServiceError"
             /\ outcome'[p].status_code = 500
             /\ ~Has(p, "post")' /\ ~Has(p, "persist")' /\ ~Has(p, "touch")'
             /\ rows' = rows /\ issued' = issued
             /\ Len(log'[p]) = 1
             /\ ~Leaks(log'[p][1].text, before'[p])
             /\ ~Leaks(outcome'[p].message, before'[p])]_vars

C12_Witness ==
    \E p, q \in Calls :
        /\ pc[p] = "failed" /\ outcome[p].status_code = 500
        /\ Undecryptable(before[p].access_token)
        /\ pc[q] = "failed" /\ outcome[q].status_code = 500
        /\ ~Undecryptable(before[q].access_token)
        /\ Undecryptable(before[q].refresh_token)
        /\ log[p] # <<>> /\ log[q] # <<>>

\* ------------------------------------------------------------- tool calls
RECURSIVE Concat(_)
\* The emails of a sequence of answers, in order
Concat(ans) ==
    IF ans = <<>> THEN <<>>
    ELSE (IF "value" \in DOMAIN Head(ans).json THEN Head(ans).json["value"]
                                               ELSE <<>>)
         \o Concat(Tail(ans))

HasLink(answer) == "@odata.nextLink" \in DOMAIN answer.json

Failure(answer) == answer.status_code = 0 \/ answer.status_code >= 400

\* A request of the current fetch is not yet answered to graph_get_paginated
InFetch == toolPc = "page" \/ (toolPc = "aexit" /\ tool.at = "page")

\* C13: a fetch all of whose requests were answered with a page returns the
\* first min(max_count, n) emails, in order, of the pages it got by
\* following each page's nextLink from the first page of the endpoint; it
\* stops at the first page without nextLink, or when max_count is reached.
C13_ReturnsFirstItems ==
    toolPc = "done" /\ tool.token # "" =>
        LET all == Concat(answers)
            m   == IF tool.count < Len(all) THEN tool.count ELSE Len(all)
        IN  /\ ended.ok /\ ended.items = SubSeq(all, 1, m)
            /\ toolResult.emails = ended.items
            /\ Len(answers) = Len(requests)
            /\ requests[1].request.url.path
                  = <<"https://graph.microsoft.com/v1.0">> \o tool.endpoint.path
            /\ \A i \in 1..(Len(answers) - 1) :
                  /\ HasLink(answers[i])
                  /\ requests[i + 1].request.url
                        = answers[i].json["@odata.nextLink"]
            /\ \/ ~HasLink(answers[Len(answers)])
               \/ Len(all) >= tool.count

C13_Witness ==
    /\ toolPc = "done" /\ Len(answers) = 2
    /\ Len(Concat(answers)) > tool.count
    /\ Len(toolResult.emails) = tool.count

\* C14: every request of a fetch is sent while fewer than max_count emails
\* are accumulated, and none after that; with max_count 25 and pages of 10
\* that all carry a nextLink the fetch sends 3 requests and returns 25.
C14_NoRequestOnceFull ==
    /\ InFetch \/ toolPc \in {"done", "failed"} =>
          /\ \A i \in DOMAIN requests :
                Len(Concat(SubSeq(answers, 1, i - 1))) < tool.count
          /\ Len(requests) - Len(answers) = (IF InFetch THEN 1 ELSE 0)
    /\ /\ toolPc = "done" /\ tool.count = 25
       /\ \A i \in DOMAIN answers :
             HasLink(answers[i]) /\ Len(Concat(<<answers[i]>>)) = 10
       => Len(requests) = 3 /\ Len(toolResult.emails) = 25

C14_Witness ==
    /\ toolPc = "done" /\ tool.count = 25 /\ Len(requests) = 3
    /\ \A i \in DOMAIN answers :
          HasLink(answers[i]) /\ Len(Concat(<<answers[i]>>)) = 10
    /\ Len(toolResult.emails) = 25

\* C15: a fetch whose get fails raises that failure at once: no request
\* follows a failed one, a tool call that ends with the exception of a
\* fetch ends with the one its last request raised, and the emails a tool
\* returns come from a fetch none of whose requests failed.
C15_FailurePropagatesAtOnce ==
    /\ InFetch => \A i \in DOMAIN answers : ~Failure(answers[i])
    /\ toolPc = "done" =>
          /\ \A i \in DOMAIN answers : ~Failure(answers[i])
          /\ \A i \in DOMAIN toolResult.emails :
                toolResult.emails[i] \div 1000 = Len(attempts)
    /\ toolPc = "failed" /\ tool.token # "" =>
          /\ ~ended.ok /\ toolResult = ended.error
          /\ Len(answers) = Len(requests)
          /\ Failure(answers[Len(answers)])
          /\ \A i \in 1..(Len(answers) - 1) : ~Failure(answers[i])

C15_Witness ==
    /\ toolPc = "failed" /\ tool.name = "list_emails"
    /\ Len(answers) = 2 /\ Concat(answers) # <<>>

\* The labels of the fetches a search may begin, in order
ExpectedLabels(a) ==
    <<"combined search">>
    \o (IF a.subject # "" THEN <<"subject search">> ELSE <<>>)
    \o (IF a.from_address # "" THEN <<"from search">> ELSE <<>>)
    \o (IF a.query # "" THEN <<"query search">> ELSE <<>>)
    \o <<"recent emails fallback">>

Searching == toolPc # "idle" /\ tool.name = "search_emails"

LastLabel == attempts[Len(attempts)].label

\* C16: the fetches of a search begin in the order combined, subject, from,
\* query, recent emails, without those of empty terms; a fetch begins only
\* if the one before it returned no email or raised; emails a search
\* returns are those of the last fetch begun, under its label.
C16_TiersInOrder ==
    Searching =>
        LET labels == ExpectedLabels(tool.args)
        IN  /\ Len(attempts) <= Len(labels)
            /\ \A i \in DOMAIN attempts : attempts[i].label = labels[i]
            /\ InFetch /\ Len(attempts) >= 2 /\ ended.ok =>
                  ended.items = <<>>
            /\ toolPc = "done" /\ toolResult.emails # <<>> =>
                  /\ toolResult.via = LastLabel
                  /\ toolResult.emails = ended.items
                  /\ \A i \in DOMAIN toolResult.emails :
                        toolResult.emails[i] \div 1000 = Len(attempts)

C16_Witness ==
    /\ Searching /\ toolPc = "done"
    /\ tool.args.query # "" /\ tool.args.subject # ""
    /\ Len(attempts) = 2 /\ toolResult.via = "subject search"
    /\ toolResult.emails # <<>>

\* C17: a search ends only with emails of a fetch or after the recent
\* emails fetch; it returns what that fetch returned, and it raises only
\* what that fetch raised: exceptions of the fetches before it are caught.
C17_FallbackAlwaysRuns ==
    Searching /\ toolPc \in {"done", "failed"} =>
        /\ toolPc = "done" =>
              /\ toolResult.emails = <<>> => LastLabel = "recent emails fallback"
              /\ LastLabel = "recent emails fallback" =>
                    ended.ok /\ toolResult.emails = ended.items
        /\ toolPc = "failed" =>
              /\ LastLabel = "recent emails fallback"
              /\ Len(attempts) = Len(ExpectedLabels(tool.args))
              /\ ~ended.ok /\ toolResult = ended.error

C17_Witness ==
    /\ Searching /\ toolPc = "done" /\ Len(attempts) = 5
    /\ LastLabel = "recent emails fallback"
    /\ toolResult.emails # <<>>

\* C18: no two fetches of a search begin with the same request (endpoint
\* and params).
C18_NoRequestRepeated ==
    Searching /\ tool.token # "" =>
        \A i, j \in DOMAIN attempts :
            i < j => ~(/\ attempts[i].endpoint = attempts[j].endpoint
                       /\ attempts[i].params = attempts[j].params)

\* C19: the text a search returns names the fetch that its emails come
\* from: "combined search", "<term> search" or "recent emails fallback".
C19_ResultCarriesLabel ==
    Searching /\ toolPc = "done" =>
        /\ toolResult.via = LastLabel
        /\ toolResult.via \in {"combined search", "subject search",
                               "from search", "query search",
                               "recent emails fallback"}

\* C20: without a token no request is sent and the get raises the
\* authentication error; a 401 raises the session error, any other status
\* from 400 on raises the API error with that status, a lower status
\* returns the body; a nextLink is requested as it is, without params, and
\* the params of a continuation call are empty.
C20_GetMapsEveryOutcome ==
    toolPc # "idle" =>
        /\ tool.token = "" =>
              /\ requests = <<>> /\ toolPc \in {"done", "failed"}
              /\ toolPc = "failed" =>
                    /\ toolResult.kind = "ToolError"
                    /\ toolResult.message.wording
                          = "Microsoft authentication required. Please connect your Outlook account."
        /\ InFetch \/ toolPc = "done" =>
              \A i \in DOMAIN answers :
                  answers[i].status_code > 0 /\ answers[i].status_code < 400
        /\ InFetch => tool.all_items = Concat(answers)
        /\ toolPc = "failed" /\ tool.token # "" =>
              LET a == answers[Len(answers)]
              IN  /\ a.status_code = 0 <=> toolResult.kind = "TransportError"
                  /\ a.status_code = 401 <=>
                        /\ toolResult.kind = "ToolError"
                        /\ toolResult.message.wording
                              = "Session expired. Please reconnect your Outlook account."
                  /\ a.status_code >= 400 /\ a.status_code # 401 <=>
                        /\ toolResult.kind = "ToolError"
                        /\ toolResult.message.parts
                              = {<<"status_code", a.status_code>>}
        /\ InFetch \/ toolPc \in {"done", "failed"} =>
              /\ \A i \in DOMAIN requests :
                    IF i = 1
                    THEN requests[i].request.params = {attempts[Len(attempts)].params}
                    ELSE /\ requests[i].request.url
                               = answers[i - 1].json["@odata.nextLink"]
                         /\ requests[i].request.params = {}
              /\ InFetch /\ Len(requests) >= 2 =>
                    DOMAIN tool.current_params = {}

C20_Witness ==
    /\ toolPc = "failed" /\ Len(requests) = 2
    /\ answers[2].status_code = 400
    /\ requests[2].request.params = {}
    /\ toolResult.message.parts = {<<"status_code", 400>>}

\* ------------------------------------------------------------- the pool
\* The calls that hold a pool returned by _get_pool
WithPool == {p \in Calls : "pool" \in DOMAIN frame[p]}

\* C21: until close() is called, create_pool completes at most once and
\* all calls that have a pool have the same one.
C21_AtMostOnePool ==
    shutdown.pc = "idle" =>
        /\ poolsCreated <= 1
        /\ \A p, q \in WithPool : frame[p].pool = frame[q].pool

\* ------------------------------------------------------------ termination
\* C22: a paginated fetch that has sent a request ends: the tool returns
\* or raises.
C22_FetchTerminates ==
    (toolPc = "page") ~> (toolPc \in {"done", "failed"})

\* ------------------------------------------------------ the lock, released
\* A lock that is held is held by a call that is still running.
C23_HeldByRunning ==
    \A k \in DOMAIN locks :
        locks[k].locked =>
            \E p \in Calls :
                Started(p) /\ LockKey(frame[p].user_id) = k /\ InFlight(p)

\* The step in which a call raises leaves the user's lock free.
C23_RaiseReleases ==
    \A p \in Calls :
        pc[p] # "failed" /\ pc'[p] = "failed" =>
            ~locks'[LockKey(frame[p].user_id)].locked

\* C23: a call that raises leaves the user's lock free, whatever it raises
\* (no row, a token that does not decrypt, a rejected refresh, a transport
\* failure, a store error), and every call that waits for a lock takes it
\* in the end.
C23_FailedCallFreesLock ==
    /\ []C23_HeldByRunning
    /\ [][C23_RaiseReleases]_vars
    /\ \A p \in Calls : (pc[p] = "waiting") ~> InFlight(p)

C23_Witness ==
    \E p, q \in Calls :
        /\ Follows(p, q) /\ Has(q, "wait")
        /\ pc[p] = "failed" /\ outcome[p] = RefreshFailed
        /\ InFlight(q)

====
